---- MODULE Spec2Model ----
(***************************************************************************)
(* Model of nl_reward_model/slf5k/evaluation/2_infer.py: the Response      *)
(* Parser (extract_textual_feedback, extract_word_scores) and the Run      *)
(* Driver (main).                                                          *)
(*                                                                         *)
(* A response string is represented by what the parser can observe of it:  *)
(* whether prose surrounds it, the tuple / bracket / object literals that  *)
(* the three regular expressions can match in the prose, and the JSON      *)
(* value (if any) that sits between the first "{" and the last "}" (or     *)
(* that is the whole text).  json.loads and re.findall are operators       *)
(* over that representation.                                               *)
(***************************************************************************)
EXTENDS Integers, Sequences, FiniteSets, TLC

VARIABLES
    response,      \* argument of the running extract_word_scores call
    stack,         \* responses of the suspended (calling) invocations
    ppc,           \* position inside extract_word_scores
    tried,         \* patterns already run by the current non-JSON call
    searched,      \* the embedded {...} search has been made
    retried,       \* the recursive retry has been made
    result,        \* outcome of the last finished call (value or exception)
    feedback,      \* outcome of extract_textual_feedback
    pc,            \* position inside main
    val_data,      \* the dataset file: its form and its number of samples
    max_samples,   \* args.max_samples
    batch_size,    \* args.batch_size
    sampled_data,  \* the sampled items (dataset entries, by number)
    i,             \* loop variable of the batch loop
    responses,     \* responses of the batch in progress
    results,       \* accumulated EvaluationRecords
    inspected,     \* outcome of the diagnostic parse of each batch
    genCalls,      \* batches handed to process_batch, in order
    outFile,       \* the file at args.output_path
    backupFile,    \* the file at ./evaluation_results_backup.json
    writes,        \* write attempts: [out |-> n, backup |-> n]
    log,           \* the messages printed by main's handlers
    failedAt       \* the stage whose failure ended main early

pvars == <<response, stack, ppc, tried, searched, retried, result, feedback>>
dvars == <<pc, val_data, max_samples, batch_size, sampled_data, i, responses,
           results, inspected, genCalls, outFile, backupFile, writes, log,
           failedAt>>
vars == <<pvars, dvars>>

(***************************************************************************)
(* Bounds of the model.                                                    *)
(***************************************************************************)
MaxItems == 2
MaxLits == 2
MaxSamples == 3
MaxBatch == 2
RecursionLimit == 3

(***************************************************************************)
(* JSON values at the word and score positions.                            *)
(***************************************************************************)
WStr(s) == [t |-> "str", s |-> s]
WNum(s) == [t |-> "num", s |-> s]
SInt(n) == [t |-> "int", v |-> n, ints |-> <<>>]
\* the text of a decimal integer, such as "1"
SNumStr(n) == [t |-> "numstr", v |-> n, ints |-> <<>>]
\* any other text; ints lists the signed integers written in it, in order
SText(ints) == [t |-> "text", v |-> 0, ints |-> ints]
SNull == [t |-> "null", v |-> 0, ints |-> <<>>]

WordVals == {WStr("a"), WStr("b"), WNum("7")}
ScoreVals == {SInt(-1), SInt(5), SNumStr(1), SText(<<>>), SText(<<-1, 1>>), SNull}

(***************************************************************************)
(* Elements of word_score_list.                                            *)
(***************************************************************************)
DictItem(wk, sk, extra, w, s) ==
    [t |-> "dict", wk |-> wk, sk |-> sk, extra |-> extra, len |-> 0, w |-> w, s |-> s]
ListItem(n, w, s) ==
    [t |-> "list", wk |-> "none", sk |-> "none", extra |-> 0, len |-> n, w |-> w, s |-> s]
ScalarItem ==
    [t |-> "scalar", wk |-> "none", sk |-> "none", extra |-> 0, len |-> 0,
     w |-> WNum("3"), s |-> SNull]

Items ==
    {DictItem("word", "score", 0, WStr("a"), s) : s \in ScoreVals}
    \cup {DictItem("word", "score", 0, WStr("b"), SInt(5)),
          DictItem("word", "score", 0, WNum("7"), SInt(-1)),
          DictItem("word", "score", 1, WStr("a"), SInt(-1))}
    \cup {DictItem("word", "Score", 0, WStr("a"), s) : s \in {SNumStr(1), SText(<<-1, 1>>)}}
    \cup {DictItem("token", "value", 0, WStr("a"), s) : s \in {SInt(5), SText(<<-1, 1>>)}}
    \cup {DictItem("Word", "SCORE", 0, WStr("b"), SText(<<>>))}
    \cup {DictItem("word", "none", e, WStr("a"), SNull) : e \in {0, 1}}
    \cup {ListItem(2, WStr("a"), s) : s \in ScoreVals}
    \cup {ListItem(2, WStr("b"), SInt(5)), ListItem(2, WNum("7"), SInt(-1)),
          ListItem(1, WStr("a"), SNull), ScalarItem}

\* the items used inside a {...} span that prose surrounds: text words, and
\* every kind of score but null
EmbeddedItems == {it \in Items : it.w.t = "str" /\ it.t # "scalar" /\ it.s.t # "null"}

RECURSIVE SeqsUpTo(_, _)
SeqsUpTo(S, n) ==
    IF n = 0 THEN {<<>>}
    ELSE LET shorter == SeqsUpTo(S, n - 1)
         IN  shorter \cup {Append(q, x) : q \in shorter, x \in S}

(***************************************************************************)
(* Literals that the regular expressions match in running text.            *)
(***************************************************************************)
Lit(k, w, n) == [k |-> k, word |-> w, score |-> n]
Lits == {Lit(k, w, n) : k \in {"tuple", "bracket", "object"}, w \in {"a", "b"}, n \in {-1, 5}}

(***************************************************************************)
(* Responses.                                                              *)
(***************************************************************************)
NoWsl == [t |-> "absent", lits |-> <<>>, items |-> <<>>]
StrWsl(ls) == [t |-> "str", lits |-> ls, items |-> <<>>]
ListWsl(its) == [t |-> "list", lits |-> <<>>, items |-> its]
OtherWsl == [t |-> "other", lits |-> <<>>, items |-> <<>>]

Body(t) == [t |-> t, wsl |-> NoWsl, fb |-> ""]
Obj(wsl, fb) == [t |-> "obj", wsl |-> wsl, fb |-> fb]
Text(pre, ls, body) == [pre |-> pre, lits |-> ls, body |-> body]

Wsls(items) ==
    {NoWsl, OtherWsl}
    \cup {StrWsl(ls) : ls \in SeqsUpTo(Lits, MaxLits)}
    \cup {ListWsl(its) : its \in SeqsUpTo(items, MaxItems)}

Objs(items) ==
    {Obj(w, "") : w \in Wsls(items)}
    \cup {Obj(w, "fb") : w \in {NoWsl, OtherWsl, ListWsl(<<>>)}}

\* the whole text is one JSON value
JsonResponses ==
    {Text(FALSE, <<>>, b) : b \in Objs(Items) \cup {Body("null"), Body("num"), Body("str"), Body("list")}}

\* prose around literals and around at most one {...} span
ProseResponses ==
    {Text(TRUE, ls, b) :
        ls \in SeqsUpTo(Lits, MaxLits),
        b \in {Body("none"), Body("broken"), Obj(NoWsl, "fb"),
               Obj(ListWsl(<<ListItem(2, WStr("b"), SInt(5))>>), ""),
               Obj(ListWsl(<<DictItem("word", "score", 0, WStr("b"), SInt(5))>>), "")}}
    \cup {Text(TRUE, <<>>, b) : b \in Objs(EmbeddedItems)}
    \cup {Text(FALSE, <<>>, Body("none"))}

Responses == JsonResponses \cup ProseResponses

(***************************************************************************)
(* Outcomes: a returned value or a raised exception.                       *)
(***************************************************************************)
Ok(v) == [ok |-> TRUE, val |-> v, exc |-> ""]
Raise(e) == [ok |-> FALSE, val |-> <<>>, exc |-> e]
Pending == [ok |-> FALSE, val |-> <<>>, exc |-> "pending"]

(***************************************************************************)
(* json.loads and the regular expressions.                                 *)
(***************************************************************************)
\* json.loads(text) succeeds: the whole text is one JSON value
Decodes(r) ==
    /\ ~r.pre
    /\ r.lits = <<>>
    /\ r.body.t \in {"null", "num", "str", "list", "obj"}

\* mutant of patterns: the bracket pattern listed before the tuple pattern
patterns_BracketFirst == <<"bracket", "tuple", "object">>

\* the three patterns of the non-JSON branch, in the order of the list
patterns == <<"tuple", "bracket", "object">>

\* int() applied to a regex capture of -?\d+, paired with the captured word
ToPairs(tuples) == [n \in 1..Len(tuples) |-> <<WStr(tuples[n].word), SInt(tuples[n].score)>>]

RECURSIVE SelectKind(_, _)
SelectKind(k, ls) ==
    IF ls = <<>> THEN <<>>
    ELSE IF Head(ls).k = k THEN <<Head(ls)>> \o SelectKind(k, Tail(ls))
    ELSE SelectKind(k, Tail(ls))

\* what an element of a JSON array looks like to the patterns in the raw text:
\* ["a", 5] is a bracket literal, {"word": "a", "score": 5} is an object literal
ItemLits(it) ==
    IF it.t = "list" /\ it.len = 2 /\ it.w.t = "str" /\ it.s.t = "int"
    THEN <<Lit("bracket", it.w.s, it.s.v)>>
    ELSE IF it.t = "dict" /\ it.wk = "word" /\ it.sk = "score" /\ it.extra = 0
            /\ it.w.t = "str" /\ it.s.t = "int"
    THEN <<Lit("object", it.w.s, it.s.v)>>
    ELSE <<>>

RECURSIVE ItemsLits(_)
ItemsLits(its) == IF its = <<>> THEN <<>> ELSE ItemLits(Head(its)) \o ItemsLits(Tail(its))

\* the literals of the raw text, left to right
RawLits(r) ==
    r.lits \o (IF r.body.t # "obj" THEN <<>>
               ELSE IF r.body.wsl.t = "str" THEN r.body.wsl.lits
               ELSE IF r.body.wsl.t = "list" THEN ItemsLits(r.body.wsl.items)
               ELSE <<>>)

\* re.findall(pattern, response)
FindAll(pattern, r) == SelectKind(pattern, RawLits(r))

\* re.search(r'({[\s\S]*})', response): from the first "{" to the last "}"
HasBraces(r) ==
    \/ r.body.t \in {"obj", "broken"}
    \/ \E n \in 1..Len(r.lits) : r.lits[n].k = "object"

\* json_match.group(1) as a text of its own
JsonStr(r) ==
    IF \E n \in 1..Len(r.lits) : r.lits[n].k = "object"
    THEN Text(FALSE, <<>>, Body("broken"))
    ELSE Text(FALSE, <<>>, r.body)

(***************************************************************************)
(* int() and the score conversions.                                        *)
(***************************************************************************)
\* int(x) for a decoded JSON value x
PyInt(s) ==
    CASE s.t = "int" -> Ok(SInt(s.v))
      [] s.t = "numstr" -> Ok(SInt(s.v))
      [] s.t = "text" -> Raise("ValueError")
      [] OTHER -> Raise("TypeError")

\* lines 156-161 and 169-174: text scores are converted, other values kept
FallbackScore(s) ==
    IF s.t \in {"numstr", "text"}
    THEN IF PyInt(s).ok THEN PyInt(s).val
         ELSE IF s.ints # <<>> THEN SInt(Head(s.ints)) ELSE SInt(0)
    ELSE s

\* str(x)
PyStr(w) == WStr(w.s)

(***************************************************************************)
(* Element access.                                                         *)
(***************************************************************************)
HasKey(it, k) == it.t = "dict" /\ k # "none" /\ (it.wk = k \/ it.sk = k)

\* item[key] for a text key
GetKey(it, k) ==
    IF it.t # "dict" THEN Raise("TypeError")
    ELSE IF it.wk = k /\ k # "none" THEN Ok(it.w)
    ELSE IF it.sk = k /\ k # "none" THEN Ok(it.s)
    ELSE Raise("KeyError")

\* item[n] for n in 0..1
GetIndex(it, n) ==
    IF it.t = "dict" THEN Raise("KeyError")
    ELSE IF it.t # "list" THEN Raise("TypeError")
    ELSE IF n >= it.len THEN Raise("IndexError")
    ELSE Ok(IF n = 0 THEN it.w ELSE it.s)

\* (item["word"], int(item[score_key]))
KeyedPair(it, sk) ==
    LET w == GetKey(it, "word")
        s == GetKey(it, sk)
    IN  IF ~w.ok THEN w
        ELSE IF ~s.ok THEN s
        ELSE IF ~PyInt(s.val).ok THEN PyInt(s.val)
        ELSE Ok(<<w.val, PyInt(s.val).val>>)

\* (str(item[0]), int(item[1]))
IndexedPair(it) ==
    LET w == GetIndex(it, 0)
        s == GetIndex(it, 1)
    IN  IF ~w.ok THEN w
        ELSE IF ~s.ok THEN s
        ELSE IF ~PyInt(s.val).ok THEN PyInt(s.val)
        ELSE Ok(<<PyStr(w.val), PyInt(s.val).val>>)

\* a list comprehension over items: the first failing element raises
RECURSIVE Comprehend(_, _)
Comprehend(its, sk) ==
    IF its = <<>> THEN Ok(<<>>)
    ELSE LET p == IF sk = "" THEN IndexedPair(Head(its)) ELSE KeyedPair(Head(its), sk)
             rest == Comprehend(Tail(its), sk)
         IN  IF ~p.ok THEN p
             ELSE IF ~rest.ok THEN rest
             ELSE Ok(<<p.val>> \o rest.val)

Lower(k) ==
    CASE k \in {"word", "Word"} -> "word"
      [] k \in {"score", "Score", "SCORE"} -> "score"
      [] OTHER -> k

DictLen(it) == (IF it.wk = "none" THEN 0 ELSE 1) + (IF it.sk = "none" THEN 0 ELSE 1) + it.extra

\* lines 152-175: what one element adds to result
ScanItem(it) ==
    IF it.t = "list" /\ it.len >= 2
    THEN <<<<PyStr(it.w), FallbackScore(it.s)>>>>
    ELSE IF it.t = "dict" /\ DictLen(it) >= 2
            /\ Lower(it.wk) \in {"word", "token"} /\ Lower(it.sk) \in {"score", "value"}
    THEN <<<<PyStr(it.w), FallbackScore(it.s)>>>>
    ELSE <<>>

\* lines 150-176: the generic per-item scan
RECURSIVE GenericScan(_)
GenericScan(its) == IF its = <<>> THEN <<>> ELSE ScanItem(Head(its)) \o GenericScan(Tail(its))

\* lines 134-178: the try block of extract_word_scores on the decoded value
ShapeDispatch(body) ==
    IF body.t # "obj" THEN Raise("AttributeError")
    ELSE LET wsl == body.wsl
             its == wsl.items
         IN  IF wsl.t = "str" THEN Ok(ToPairs(SelectKind("tuple", wsl.lits)))
             ELSE IF wsl.t = "other" THEN Ok(<<>>)
             ELSE IF its # <<>> /\ its[1].t = "dict"
             THEN IF HasKey(its[1], "word") /\ HasKey(its[1], "score")
                  THEN Comprehend(its, "score")
                  ELSE IF HasKey(its[1], "word") /\ HasKey(its[1], "Score")
                  THEN Comprehend(its, "Score")
                  ELSE Ok(GenericScan(its))
             ELSE IF its # <<>> /\ its[1].t = "list"
             THEN Comprehend(its, "")
             ELSE Ok(GenericScan(its))

FbOk(s) == [ok |-> TRUE, val |-> s, exc |-> ""]
FbRaise(e) == [ok |-> FALSE, val |-> "", exc |-> e]
FbPending == [ok |-> FALSE, val |-> "", exc |-> "pending"]

\* lines 121-129: .get on the decoded value, else the regex on the raw text
extract_textual_feedback(r) ==
    IF Decodes(r)
    THEN IF r.body.t = "obj" THEN FbOk(r.body.fb) ELSE FbRaise("AttributeError")
    ELSE IF r.body.t = "obj" THEN FbOk(r.body.fb) ELSE FbOk("")

\* lines 186-189: the matches of the first pattern that matches, if any
RECURSIVE FirstMatches(_, _)
FirstMatches(k, r) ==
    IF k > Len(patterns) THEN <<>>
    ELSE IF FindAll(patterns[k], r) # <<>> THEN FindAll(patterns[k], r)
    ELSE FirstMatches(k + 1, r)

\* mutant of CanRetry: the retry is made on any {...} span, decoded or not
CanRetry_AnyBraces(r) == HasBraces(r)

\* lines 191-196: the embedded object is found, decodes and has the key
CanRetry(r) ==
    /\ HasBraces(r)
    /\ Decodes(JsonStr(r))
    /\ JsonStr(r).body.t = "obj"
    /\ JsonStr(r).body.wsl.t # "absent"

\* lines 132-201 as one function; depth counts the enclosing invocations
RECURSIVE ExtractAt(_, _)
ExtractAt(r, depth) ==
    IF Decodes(r) THEN ShapeDispatch(r.body)
    ELSE IF FirstMatches(1, r) # <<>> THEN Ok(ToPairs(FirstMatches(1, r)))
    ELSE IF ~CanRetry(r) THEN Ok(<<>>)
    ELSE IF depth + 1 >= RecursionLimit THEN Raise("RecursionError")
    ELSE ExtractAt(JsonStr(r), depth + 1)

extract_word_scores(r) == ExtractAt(r, 0)

(***************************************************************************)
(* extract_word_scores, step by step.                                      *)
(***************************************************************************)
Frame(r, t) == [response |-> r, tried |-> t]

\* lines 133-134 and 179: json.loads decides between the two branches
JsonLoads ==
    /\ ppc = "call"
    /\ ppc' = IF Decodes(response) THEN "json" ELSE "patterns"
    /\ UNCHANGED <<response, stack, tried, searched, retried, result, feedback>>
    /\ UNCHANGED dvars

\* lines 135-178
Dispatch ==
    /\ ppc = "json"
    /\ result' = ShapeDispatch(response.body)
    /\ ppc' = "return"
    /\ UNCHANGED <<response, stack, tried, searched, retried, feedback>>
    /\ UNCHANGED dvars

\* lines 186-189: one iteration of the loop over patterns
TryPattern ==
    /\ ppc = "patterns"
    /\ Len(tried) < Len(patterns)
    /\ LET pattern == patterns[Len(tried) + 1]
           tuples == FindAll(pattern, response)
       IN  /\ tried' = Append(tried, pattern)
           /\ IF tuples # <<>>
              THEN /\ result' = Ok(ToPairs(tuples))
                   /\ ppc' = "return"
              ELSE /\ result' = result
                   /\ ppc' = IF Len(tried') = Len(patterns) THEN "embedded" ELSE "patterns"
    /\ UNCHANGED <<response, stack, searched, retried, feedback>>
    /\ UNCHANGED dvars

\* lines 191-201
EmbeddedRetry ==
    /\ ppc = "embedded"
    /\ searched' = TRUE
    /\ IF CanRetry(response)
       THEN IF Len(stack) + 1 >= RecursionLimit
            THEN /\ result' = Raise("RecursionError")
                 /\ ppc' = "return"
                 /\ UNCHANGED <<response, stack, tried, retried>>
            ELSE /\ stack' = Append(stack, Frame(response, tried))
                 /\ response' = JsonStr(response)
                 /\ tried' = <<>>
                 /\ retried' = TRUE
                 /\ ppc' = "call"
                 /\ result' = result
       ELSE /\ result' = Ok(<<>>)
            /\ ppc' = "return"
            /\ UNCHANGED <<response, stack, tried, retried>>
    /\ feedback' = feedback
    /\ UNCHANGED dvars

\* a return, or an exception leaving the function: line 197 hands the nested
\* call's outcome to the caller unchanged
Return ==
    /\ ppc = "return"
    /\ IF stack # <<>>
       THEN /\ response' = stack[Len(stack)].response
            /\ tried' = stack[Len(stack)].tried
            /\ stack' = SubSeq(stack, 1, Len(stack) - 1)
            /\ ppc' = "return"
       ELSE /\ ppc' = "done"
            /\ UNCHANGED <<response, tried, stack>>
    /\ UNCHANGED <<searched, retried, result, feedback>>
    /\ UNCHANGED dvars

\* lines 121-129, applied to the same response
Feedback ==
    /\ ppc = "done"
    /\ feedback = FbPending
    /\ feedback' = extract_textual_feedback(response)
    /\ UNCHANGED <<response, stack, ppc, tried, searched, retried, result>>
    /\ UNCHANGED dvars

IdleDriver ==
    /\ pc = "idle"
    /\ val_data = [form |-> "sequence", n |-> 0]
    /\ max_samples = 0
    /\ batch_size = 1
    /\ sampled_data = <<>>
    /\ i = 0
    /\ responses = <<>>
    /\ results = <<>>
    /\ inspected = <<>>
    /\ genCalls = <<>>
    /\ outFile = [state |-> "absent", data |-> <<>>]
    /\ backupFile = [state |-> "absent", data |-> <<>>]
    /\ writes = [out |-> 0, backup |-> 0]
    /\ log = <<>>
    /\ failedAt = "none"

Init ==
    /\ response \in Responses
    /\ stack = <<>>
    /\ ppc = "call"
    /\ tried = <<>>
    /\ searched = FALSE
    /\ retried = FALSE
    /\ result = Pending
    /\ feedback = FbPending
    /\ IdleDriver

Next ==
    \/ JsonLoads
    \/ Dispatch
    \/ TryPattern
    \/ EmbeddedRetry
    \/ Return
    \/ Feedback

Spec == Init /\ [][Next]_vars

\* the interpreter runs a started call to its end: a single thread, no
\* suspension, so an enabled step is eventually taken
LiveSpec == Spec /\ WF_vars(Next)

\* the step-by-step run and the function agree
StepsAgree == ppc = "done" => result = extract_word_scores(response)

TypeOK ==
    /\ ppc \in {"call", "json", "patterns", "embedded", "return", "done"}
    /\ Len(stack) < RecursionLimit

(***************************************************************************)
(* The Run Driver: main.                                                   *)
(***************************************************************************)
Min(a, b) == IF a < b THEN a ELSE b

\* the Sample stored as entry e of the dataset
Sample(e) == [post |-> <<"post", e>>, generated_summary |-> <<"summary", e>>]

\* random.sample(population of n, k): every arrangement without repetition
Arrangements(n, k) ==
    {s \in [1..k -> 1..n] : \A a, b \in 1..k : a # b => s[a] # s[b]}

\* the strings the stubbed generator can return
GeneratorResponses ==
    {Text(FALSE, <<>>, Body("list")),
     Text(TRUE, <<Lit("bracket", "a", 5)>>, Body("none"))}

Datasets ==
    {[form |-> f, n |-> n] : f \in {"mapping", "sequence"}, n \in 0..MaxSamples}
    \cup {[form |-> "scalar", n |-> 0], [form |-> "unreadable", n |-> 0]}

NoFile == [state |-> "absent", data |-> <<>>]
Written(rs) == [state |-> "complete", data |-> rs]
\* open(path, "w") succeeded and json.dump did not finish
Truncated == [state |-> "partial", data |-> <<>>]

\* lines 212-223
LoadData ==
    /\ pc = "load"
    /\ IF \/ val_data.form \in {"unreadable", "scalar"}
          \/ val_data.form = "mapping" /\ val_data.n = 0
       THEN /\ log' = Append(log, "Error loading validation data")
            /\ failedAt' = "load"
            /\ pc' = "exit"
       ELSE /\ pc' = "sample"
            /\ UNCHANGED <<log, failedAt>>
    /\ UNCHANGED <<val_data, max_samples, batch_size, sampled_data, i, responses,
                   results, inspected, genCalls, outFile, backupFile, writes>>
    /\ UNCHANGED pvars

\* mutant of SampleData: the handler logs the failure and does not return
SampleData_NoReturn ==
    /\ pc = "sample"
    /\ IF max_samples < 0
       THEN /\ log' = Append(log, "Error sampling data")
            /\ failedAt' = "sample"
            /\ sampled_data' = <<>>
       ELSE /\ \E s \in Arrangements(val_data.n, Min(max_samples, val_data.n)) :
                  sampled_data' = [k \in 1..Len(s) |-> Sample(s[k])]
            /\ UNCHANGED <<log, failedAt>>
    /\ pc' = "loop"
    /\ UNCHANGED <<val_data, max_samples, batch_size, i, responses, results,
                   inspected, genCalls, outFile, backupFile, writes>>
    /\ UNCHANGED pvars

\* lines 225-239
SampleData ==
    /\ pc = "sample"
    /\ IF max_samples < 0
       THEN /\ log' = Append(log, "Error sampling data")
            /\ failedAt' = "sample"
            /\ pc' = "exit"
            /\ UNCHANGED sampled_data
       ELSE /\ \E s \in Arrangements(val_data.n, Min(max_samples, val_data.n)) :
                  sampled_data' = [k \in 1..Len(s) |-> Sample(s[k])]
            /\ pc' = "loop"
            /\ UNCHANGED <<log, failedAt>>
    /\ UNCHANGED <<val_data, max_samples, batch_size, i, responses, results,
                   inspected, genCalls, outFile, backupFile, writes>>
    /\ UNCHANGED pvars

\* sampled_data[i:i + batch_size]
BatchAt(data, k, size) == SubSeq(data, k + 1, Min(k + size, Len(data)))

\* lines 241-243: the loop head and the call of process_batch, which either
\* returns one response per prompt or fails (an unhandled exception)
ProcessBatch ==
    /\ pc = "loop"
    /\ batch_size > 0
    /\ i < Len(sampled_data)
    /\ \/ /\ \E rs \in [1..Len(BatchAt(sampled_data, i, batch_size)) -> GeneratorResponses] :
                /\ responses' = rs
                /\ genCalls' = Append(genCalls,
                                      [batch |-> BatchAt(sampled_data, i, batch_size),
                                       responses |-> rs])
          /\ pc' = "inspect"
       \/ /\ pc' = "crashed"
          /\ UNCHANGED <<responses, genCalls>>
    /\ UNCHANGED <<val_data, max_samples, batch_size, sampled_data, i, results,
                   inspected, outFile, backupFile, writes, log, failedAt>>
    /\ UNCHANGED pvars

\* line 241: range(0, len(sampled_data), batch_size) is exhausted, is empty
\* (a negative step), or raises ValueError (a zero step)
LoopExit ==
    /\ pc = "loop"
    /\ batch_size <= 0 \/ i >= Len(sampled_data)
    /\ pc' = IF batch_size = 0 THEN "crashed" ELSE "write"
    /\ UNCHANGED <<val_data, max_samples, batch_size, sampled_data, i, responses,
                   results, inspected, genCalls, outFile, backupFile, writes, log,
                   failedAt>>
    /\ UNCHANGED pvars

\* lines 245-262: the diagnostic parse of the batch's first response
InspectFirst ==
    /\ pc = "inspect"
    /\ LET word_scores == extract_word_scores(responses[1])
       IN  /\ inspected' = Append(inspected, word_scores)
           /\ log' = IF word_scores.ok THEN log
                     ELSE Append(log, "Error extracting word scores")
    /\ pc' = "accumulate"
    /\ UNCHANGED <<val_data, max_samples, batch_size, sampled_data, i, responses,
                   results, genCalls, outFile, backupFile, writes, failedAt>>
    /\ UNCHANGED pvars

\* lines 264-270, and the loop's step
Accumulate ==
    /\ pc = "accumulate"
    /\ LET batch_data == BatchAt(sampled_data, i, batch_size)
       IN  results' = results \o
              [j \in 1..Min(Len(batch_data), Len(responses)) |->
                  [index |-> i + (j - 1),
                   original_post |-> batch_data[j].post,
                   generated_summary |-> batch_data[j].generated_summary,
                   model_response |-> responses[j]]]
    /\ i' = i + batch_size
    /\ pc' = "loop"
    /\ UNCHANGED <<val_data, max_samples, batch_size, sampled_data, responses,
                   inspected, genCalls, outFile, backupFile, writes, log, failedAt>>
    /\ UNCHANGED pvars

\* mutant of WriteResults: a failed write is logged and not retried
WriteResults_NoBackup ==
    /\ pc = "write"
    /\ writes' = [writes EXCEPT !.out = @ + 1]
    /\ \/ /\ outFile' = Written(results)
          /\ log' = Append(log, "Results saved")
       \/ /\ outFile' \in {outFile, Truncated}
          /\ log' = Append(log, "Error saving results")
    /\ pc' = "exit"
    /\ UNCHANGED <<val_data, max_samples, batch_size, sampled_data, i, responses,
                   results, inspected, genCalls, backupFile, failedAt>>
    /\ UNCHANGED pvars

\* lines 272-277: the write to args.output_path succeeds or fails
WriteResults ==
    /\ pc = "write"
    /\ writes' = [writes EXCEPT !.out = @ + 1]
    /\ \/ /\ outFile' = Written(results)
          /\ log' = Append(log, "Results saved")
          /\ pc' = "exit"
       \/ /\ outFile' \in {outFile, Truncated}
          /\ log' = Append(log, "Error saving results")
          /\ pc' = "backup"
    /\ UNCHANGED <<val_data, max_samples, batch_size, sampled_data, i, responses,
                   results, inspected, genCalls, backupFile, failedAt>>
    /\ UNCHANGED pvars

\* lines 278-284: the write to the backup path succeeds or fails
WriteBackup ==
    /\ pc = "backup"
    /\ writes' = [writes EXCEPT !.backup = @ + 1]
    /\ \/ /\ backupFile' = Written(results)
          /\ log' = Append(log, "Results saved to backup location")
       \/ /\ backupFile' \in {backupFile, Truncated}
          /\ log' = Append(log, "Failed to save results to backup location as well.")
    /\ pc' = "exit"
    /\ UNCHANGED <<val_data, max_samples, batch_size, sampled_data, i, responses,
                   results, inspected, genCalls, outFile, failedAt>>
    /\ UNCHANGED pvars

IdleParser ==
    /\ response = Text(FALSE, <<>>, Body("none"))
    /\ stack = <<>>
    /\ ppc = "idle"
    /\ tried = <<>>
    /\ searched = FALSE
    /\ retried = FALSE
    /\ result = Pending
    /\ feedback = FbPending

DriverInit ==
    /\ pc = "load"
    /\ val_data \in Datasets
    /\ max_samples \in -1..MaxSamples
    /\ batch_size \in -1..MaxBatch
    /\ sampled_data = <<>>
    /\ i = 0
    /\ responses = <<>>
    /\ results = <<>>
    /\ inspected = <<>>
    /\ genCalls = <<>>
    /\ outFile = NoFile
    /\ backupFile = NoFile
    /\ writes = [out |-> 0, backup |-> 0]
    /\ log = <<>>
    /\ failedAt = "none"
    /\ IdleParser

DriverNext ==
    \/ LoadData
    \/ SampleData
    \/ ProcessBatch
    \/ LoopExit
    \/ InspectFirst
    \/ Accumulate
    \/ WriteResults
    \/ WriteBackup

DriverSpec == DriverInit /\ [][DriverNext]_vars

(***************************************************************************)
(* Claims about the Response Parser (specification Spec).                  *)
(***************************************************************************)
Finished == ppc = "done" /\ stack = <<>>
TopWsl == response.body.wsl
TopItems == response.body.wsl.items

\* C1: for every response, extract_word_scores and extract_textual_feedback
\* return a value and never raise to their caller.
C1_NeverRaises ==
    /\ Finished => result.ok
    /\ feedback # FbPending => feedback.ok

\* the response is valid JSON whose word_score_list is a list of
\* {word, score} mappings
IsWordScoreMappings ==
    /\ Decodes(response)
    /\ response.body.t = "obj"
    /\ TopWsl.t = "list"
    /\ \A n \in 1..Len(TopItems) :
          TopItems[n].t = "dict" /\ TopItems[n].wk = "word" /\ TopItems[n].sk = "score"

\* C2: for any valid JSON response whose word_score_list is a list of
\* {word, score} mappings, extract_word_scores returns exactly those pairs,
\* one per element, in the original order, every score an integer.
C2_MappingsInOrder ==
    (Finished /\ IsWordScoreMappings) =>
        /\ result.ok
        /\ Len(result.val) = Len(TopItems)
        /\ \A n \in 1..Len(TopItems) :
              /\ result.val[n][1] = TopItems[n].w
              /\ result.val[n][2].t = "int"
              /\ TopItems[n].s.t \in {"int", "numstr"} => result.val[n][2].v = TopItems[n].s.v

\* the part of C2 that the code does satisfy: scores that int() accepts
C2_NumericScoresOnly ==
    (Finished /\ IsWordScoreMappings
       /\ \A n \in 1..Len(TopItems) : TopItems[n].s.t \in {"int", "numstr"}) =>
        /\ result.ok
        /\ result.val = [n \in 1..Len(TopItems) |-> <<TopItems[n].w, SInt(TopItems[n].s.v)>>]

\* an element that is a pair-like sequence or a mapping with a word-like and
\* a score-like key, its score a number or a text
IsPairOrMapping(it) ==
    /\ \/ it.t = "list" /\ it.len >= 2
       \/ it.t = "dict" /\ Lower(it.wk) \in {"word", "token"} /\ Lower(it.sk) \in {"score", "value"}
    /\ it.s.t \in {"int", "numstr", "text"}

\* C3: for a valid JSON response in which an item of word_score_list (a pair
\* or a mapping) has its score written as non-numeric text, the score returned
\* for that item is the first signed integer of the text, or 0 without one.
C3_TextScoreConverted ==
    (/\ Finished
     /\ Decodes(response)
     /\ response.body.t = "obj"
     /\ TopWsl.t = "list"
     /\ \A n \in 1..Len(TopItems) : IsPairOrMapping(TopItems[n])
     /\ \E n \in 1..Len(TopItems) : TopItems[n].s.t = "text") =>
        /\ result.ok
        /\ Len(result.val) = Len(TopItems)
        /\ \A n \in 1..Len(TopItems) :
              TopItems[n].s.t = "text" =>
                 result.val[n][2] = (IF TopItems[n].s.ints # <<>>
                                     THEN SInt(Head(TopItems[n].s.ints)) ELSE SInt(0))

\* C7: every element of the sequence returned by extract_word_scores is a
\* WordScore: a text word and an integer score in {-1, 0, 1}.
C7_WordScoreRange ==
    (Finished /\ result.ok) =>
        \A n \in 1..Len(result.val) :
            /\ result.val[n][1].t = "str"
            /\ result.val[n][2].t = "int"
            /\ result.val[n][2].v \in {-1, 0, 1}

\* C8: on a response that is not valid JSON the patterns are tried in the
\* order tuple, bracket, object and the matches of the first pattern that
\* matches are returned alone; only when none matches is the embedded {...}
\* searched and the extraction retried on it, and otherwise the result is empty.
C8_FirstPatternWins ==
    (Finished /\ ~Decodes(response)) =>
        IF FindAll("tuple", response) # <<>>
        THEN /\ tried = <<"tuple">>
             /\ result = Ok(ToPairs(FindAll("tuple", response)))
             /\ ~searched
        ELSE IF FindAll("bracket", response) # <<>>
        THEN /\ tried = <<"tuple", "bracket">>
             /\ result = Ok(ToPairs(FindAll("bracket", response)))
             /\ ~searched
        ELSE IF FindAll("object", response) # <<>>
        THEN /\ tried = <<"tuple", "bracket", "object">>
             /\ result = Ok(ToPairs(FindAll("object", response)))
             /\ ~searched
        ELSE /\ tried = <<"tuple", "bracket", "object">>
             /\ searched
             /\ retried => result = ShapeDispatch(JsonStr(response).body)
             /\ ~retried => result = Ok(<<>>)

\* C8 witness: bracket and object literals both occur, no tuple literal, and
\* the bracket matches alone were returned
C8_Witness ==
    /\ Finished
    /\ ~Decodes(response)
    /\ FindAll("tuple", response) = <<>>
    /\ Len(FindAll("bracket", response)) = 2
    /\ FindAll("object", response) # <<>>
    /\ result = Ok(ToPairs(FindAll("bracket", response)))

\* C10: extract_word_scores terminates on every response, the recursive
\* retry is never nested, and the nested call stays in the JSON branch.
C10_Terminates ==
    /\ <>(ppc = "done")
    /\ [](Len(stack) <= 1)
    /\ [](Len(stack) = 1 => ppc \in {"call", "json", "return"})

\* C10 witness: a retry was made and has returned a non-empty result
C10_Witness ==
    /\ Finished
    /\ retried
    /\ result.ok
    /\ result.val # <<>>

(***************************************************************************)
(* Claims about the Run Driver (specification DriverSpec).                 *)
(***************************************************************************)
InLog(m) == \E n \in 1..Len(log) : log[n] = m

\* what the generator returned, prompt by prompt, over all batches
RECURSIVE Generated(_)
Generated(calls) ==
    IF calls = <<>> THEN <<>> ELSE Head(calls).responses \o Generated(Tail(calls))

\* the k-th call of process_batch received the k-th slice of sampled_data
BatchesInOrder ==
    \A k \in 1..Len(genCalls) :
        genCalls[k].batch = BatchAt(sampled_data, (k - 1) * batch_size, batch_size)

\* rs is the output array of C4: one record per sampled item, in order
IsOutputOf(rs) ==
    /\ Len(rs) = Min(max_samples, val_data.n)
    /\ Len(sampled_data) = Len(rs)
    /\ Len(Generated(genCalls)) = Len(rs)
    /\ \A k \in 1..Len(rs) :
          /\ rs[k].index = k - 1
          /\ rs[k].original_post = sampled_data[k].post
          /\ rs[k].generated_summary = sampled_data[k].generated_summary
          /\ rs[k].model_response = Generated(genCalls)[k]
    /\ \A a, b \in 1..Len(sampled_data) : a # b => sampled_data[a] # sampled_data[b]
    /\ \A k \in 1..Len(sampled_data) : \E e \in 1..val_data.n : sampled_data[k] = Sample(e)

\* the run of C4: a dataset of samples, M >= 0, B >= 1, a generator that
\* answered every batch, and an output path that can be written
C4_Run ==
    /\ val_data.form \in {"mapping", "sequence"}
    /\ max_samples >= 0
    /\ batch_size >= 1
    /\ pc = "exit"
    /\ ~InLog("Error saving results")

\* C4: the driver processes the batches in order and writes an output array
\* of exactly min(M, N) records; record k has index k, the post and summary of
\* the k-th sampled item and the generator's response for it verbatim,
\* whatever the parser returned or raised.
C4_OutputRecords ==
    C4_Run =>
        /\ outFile.state = "complete"
        /\ IsOutputOf(outFile.data)
        /\ BatchesInOrder

\* the part of C4 that the code does satisfy: every dataset but the empty mapping
C4_ExceptEmptyMapping ==
    (C4_Run /\ ~(val_data.form = "mapping" /\ val_data.n = 0)) =>
        /\ outFile.state = "complete"
        /\ IsOutputOf(outFile.data)
        /\ BatchesInOrder

\* C5: a failed write to the output path is followed by exactly one write of
\* the same results to the backup path; a successful one by none; and when
\* both fail the failure is logged and main still ends normally.
C5_BackupOnce ==
    /\ writes.out <= 1
    /\ writes.backup <= 1
    /\ writes.backup = 1 => InLog("Error saving results")
    /\ InLog("Results saved") =>
          /\ writes.backup = 0
          /\ backupFile = NoFile
          /\ pc = "exit"
    /\ InLog("Error saving results") =>
          /\ pc \in {"backup", "exit"}
          /\ pc = "backup" => writes.backup = 0
          /\ pc = "exit" =>
                /\ writes.backup = 1
                /\ \/ backupFile = Written(results) /\ InLog("Results saved to backup location")
                   \/ /\ backupFile.state # "complete"
                      /\ log[Len(log)] = "Failed to save results to backup location as well."

\* C5 witness: the primary write failed and the backup holds the results
C5_Witness ==
    /\ pc = "exit"
    /\ InLog("Error saving results")
    /\ backupFile = Written(results)
    /\ Len(results) >= 2

\* the failures of the loading and sampling stages
LoadFails ==
    \/ val_data.form \in {"unreadable", "scalar"}
    \/ val_data.form = "mapping" /\ val_data.n = 0
SampleFails == ~LoadFails /\ max_samples < 0

\* C6: a failure while loading or sampling is caught and logged and ends
\* main early: no batch is generated, no record accumulated, no file written.
C6_EarlyExit ==
    /\ (pc # "load" /\ LoadFails) =>
          failedAt = "load" /\ InLog("Error loading validation data")
    /\ (pc \notin {"load", "sample"} /\ SampleFails) =>
          failedAt = "sample" /\ InLog("Error sampling data")
    /\ (failedAt # "none" \/ (pc # "load" /\ LoadFails)
          \/ (pc \notin {"load", "sample"} /\ SampleFails)) =>
          /\ pc = "exit"
          /\ genCalls = <<>>
          /\ results = <<>>
          /\ outFile = NoFile
          /\ backupFile = NoFile
          /\ writes = [out |-> 0, backup |-> 0]

\* C6 witness: sampling failed on a loaded dataset and main has ended
C6_Witness ==
    /\ pc = "exit"
    /\ failedAt = "sample"
    /\ val_data.n >= 2

\* C9: a mapping and a sequence of the same samples are treated alike: for
\* every N >= 0 and M >= 0 both pass loading and sampling, min(M, N) items are
\* sampled and the output file ends with min(M, N) records.
C9_FormsAlike ==
    (val_data.form \in {"mapping", "sequence"} /\ max_samples >= 0) =>
        /\ failedAt = "none"
        /\ pc \notin {"load", "sample"} => Len(sampled_data) = Min(max_samples, val_data.n)
        /\ outFile.state = "complete" /\ batch_size >= 1 =>
              Len(outFile.data) = Min(max_samples, val_data.n)
        /\ (pc = "exit" /\ batch_size >= 1 /\ ~InLog("Error saving results")) =>
              outFile.state = "complete"

\* the part of C9 that the code does satisfy: N >= 1
C9_NonEmpty ==
    (val_data.form \in {"mapping", "sequence"} /\ max_samples >= 0 /\ val_data.n >= 1) =>
        /\ failedAt = "none"
        /\ pc \notin {"load", "sample"} => Len(sampled_data) = Min(max_samples, val_data.n)
        /\ outFile.state = "complete" /\ batch_size >= 1 =>
              Len(outFile.data) = Min(max_samples, val_data.n)
        /\ (pc = "exit" /\ batch_size >= 1 /\ ~InLog("Error saving results")) =>
              outFile.state = "complete"
====
